---- MODULE Spec2Model ----
(***************************************************************************)
(* State-machine model of attrition_dashboard.py: the module-level load of *)
(* HRDataset.csv into the global frame df, and the Dash callback           *)
(* update_dashboard that recomputes every KPI, chart and table from df and *)
(* the four filter inputs.                                                 *)
(*                                                                         *)
(* Conventions.  A frame is a sequence of rows, a row is a record keyed by *)
(* column name.  A missing cell (NaN / NaT / None) is the empty sequence   *)
(* <<>> and a present optional cell is a one-element sequence <<v>>.       *)
(* Percentages rounded to one decimal are kept as integer tenths; exact    *)
(* (unrounded) quotients are kept as [num, den] pairs.                     *)
(***************************************************************************)
EXTENDS Integers, Sequences, FiniteSets, TLC

VARIABLES csv, pc, df, departments, genders, years, min_year, max_year,
          total_employees, terminated_employees, active_employees,
          overall_attrition_rate, inputs, locals, outputs,
          pc_b, inputs_b, locals_b, outputs_b

globals == <<df, departments, genders, years, min_year, max_year,
             total_employees, terminated_employees, active_employees,
             overall_attrition_rate>>

vars == <<csv, pc, df, departments, genders, years, min_year, max_year,
          total_employees, terminated_employees, active_employees,
          overall_attrition_rate, inputs, locals, outputs,
          pc_b, inputs_b, locals_b, outputs_b>>

\* The call of a second worker thread, served while the first is running.
thread_b == <<pc_b, inputs_b, locals_b, outputs_b>>

(***************************************************************************)
(* Bounds of the model.                                                    *)
(***************************************************************************)
MaxLen == 3

MaxRepeat == 6

MaxLenShared == 2

MaxExtra == 2

(***************************************************************************)
(* Missing values and generic frame helpers (pandas primitives).           *)
(***************************************************************************)
NaN == <<>>

None == <<>>

isna(x) == x = <<>>

Range(s) == {s[i] : i \in DOMAIN s}

Reverse(s) == [i \in 1..Len(s) |-> s[Len(s) + 1 - i]]

\* Series.isin(values): a missing cell is in no list of values.
isin(cell, values) == cell \in values

\* Comparison of an optional numeric cell with a number: NaN compares False.
le(cell, n) == ~isna(cell) /\ cell[1] <= n

ge(cell, n) == ~isna(cell) /\ cell[1] >= n

\* Lexicographic order of the strings the model uses, as Python's sorted()
\* and groupby's key sort order them.
Alphabetical ==
    << "Admin Offices", "Admin and Executive Offices", "Another position",
       "Attendance", "F", "IT/IS", "M", "M ", "N/A-StillEmployed",
       "Production", "Sales", "career change", "hours", "military",
       "more money", "performance", "relocation out of area", "retiring",
       "return to school", "unhappy" >>

StrRank(s) == CHOOSE i \in DOMAIN Alphabetical : Alphabetical[i] = s

\* numpy's stable argsort of integer keys: the indices by (key, position).
argsort(keys) ==
    LET n == Len(keys)
        Pos(i) == Cardinality({j \in 1..n : keys[j] < keys[i]
                                   \/ (keys[j] = keys[i] /\ j < i)}) + 1
    IN  [p \in 1..n |-> CHOOSE i \in 1..n : Pos(i) = p]

\* pandas.core.sorting.nargsort with na_position="last": optional integer
\* keys; the missing ones go last in their original order, and a descending
\* sort reverses before and after the stable sort.
nargsort(keys, ascending) ==
    LET idx == [i \in 1..Len(keys) |-> i]
        IsPresent(i) == ~isna(keys[i])
        IsMissing(i) == isna(keys[i])
        non_nan_fwd == SelectSeq(idx, IsPresent)
        nan_idx == SelectSeq(idx, IsMissing)
        non_nan_idx == IF ascending THEN non_nan_fwd ELSE Reverse(non_nan_fwd)
        non_nans == [i \in DOMAIN non_nan_idx |-> keys[non_nan_idx[i]][1]]
        order == argsort(non_nans)
        sorted == [i \in DOMAIN order |-> non_nan_idx[order[i]]]
        indexer == IF ascending THEN sorted ELSE Reverse(sorted)
    IN  indexer \o nan_idx

take(frame, indexer) == [i \in DOMAIN indexer |-> frame[indexer[i]]]

head(frame, n) == SubSeq(frame, 1, IF Len(frame) < n THEN Len(frame) ELSE n)

\* sorted(...) of a set of distinct strings
SortedStrings(S) ==
    [p \in 1..Cardinality(S) |->
        CHOOSE v \in S : Cardinality({w \in S : StrRank(w) < StrRank(v)}) + 1 = p]

\* sorted(...) of a set of distinct numbers
SortedNumbers(S) ==
    [p \in 1..Cardinality(S) |->
        CHOOSE v \in S : Cardinality({w \in S : w < v}) + 1 = p]

\* Faulty variant of Round1: the quotient truncated to one decimal.
RoundDown1(num, den) == (num * 1000) \div den

\* round(num / den * 100, 1) as integer tenths of a percent, den > 0: IEEE
\* round-half-to-even on the quotient.
Round1(num, den) ==
    LET q == (num * 1000) \div den
        r == (num * 1000) % den
    IN  IF 2 * r > den THEN q + 1
        ELSE IF 2 * r = den THEN q + (q % 2)
        ELSE q

RECURSIVE SumSeq(_)
SumSeq(s) == IF s = <<>> THEN 0 ELSE s[1] + SumSeq(Tail(s))

column(frame, col) == [i \in DOMAIN frame |-> frame[i][col]]

(***************************************************************************)
(* The rows HRDataset.csv may hold.  Dates are [y, m, d] cells; a cell     *)
(* that does not parse as a date has a month outside 1..12.                *)
(***************************************************************************)
Date(y, m, d) == <<[y |-> y, m |-> m, d |-> d]>>

RawRow(dept, sex, termd, status, hire, term, reason, eng, salary) ==
    [Department |-> dept, Sex |-> sex, Termd |-> termd,
     EmploymentStatus |-> status, DateofHire |-> hire,
     DateofTermination |-> term, TermReason |-> reason,
     EngagementSurvey |-> eng, Salary |-> salary, ManagerName |-> "Mgr"]

Roster ==
    { RawRow("Production", "F", 0, "Active", Date(2019, 1, 7), <<>>,
             "N/A-StillEmployed", <<45>>, 62500),
      RawRow("Production", "M ", 1, "Voluntarily Terminated", Date(2019, 1, 7),
             Date(2020, 3, 15), "unhappy", <<30>>, 50000),
      RawRow("IT/IS", "F", 1, "Terminated for Cause", <<>>,
             Date(2020, 5, 20), "Attendance", <<>>, 70125),
      RawRow("IT/IS", "M", 1, "Voluntarily Terminated", Date(2019, 1, 7),
             Date(2020, 13, 1), "Another position", <<20>>, 45046),
      RawRow("Production", "F", 0, "Terminated for Cause", Date(2019, 1, 7),
             Date(2021, 1, 10), "Attendance", <<50>>, 55000),
      RawRow("Admin Offices", "M", 1, "Terminated for Cause", Date(2021, 1, 4),
             Date(2021, 1, 10), "unhappy", <<10>>, 1000999) }

\* The file's rows get their unique EmpID / Employee_Name from their position.
WithIds(rows) ==
    [i \in DOMAIN rows |-> rows[i] @@ [EmpID |-> i, Employee_Name |-> i]]

RECURSIVE SeqsUpTo(_, _)
SeqsUpTo(S, n) ==
    IF n = 0 THEN {<<>>}
    ELSE LET shorter == SeqsUpTo(S, n - 1)
         IN  shorter \cup {Append(s, x) : s \in shorter, x \in S}

RECURSIVE Repeat(_, _)
Repeat(s, k) == IF k = 0 THEN <<>> ELSE s \o Repeat(s, k - 1)

\* Termination reasons, in the order the leavers' rows come in the file.
TermReasons ==
    << "unhappy", "more money", "Another position", "hours", "career change",
       "Attendance", "retiring", "military", "performance",
       "return to school", "relocation out of area" >>

\* The row of a leaver with the j-th reason.
Leaver(j) ==
    RawRow("Production", "F", 1,
           IF j % 3 = 0 THEN "Terminated for Cause" ELSE "Voluntarily Terminated",
           Date(2019, 1, 7), Date(2020 + (j % 2), 3, 15), TermReasons[j],
           <<30>>, 50000)

\* Files of leavers: one row for each of the first n reasons, then up to
\* MaxExtra more rows that repeat the reasons of the last rows.
ReasonFiles ==
    {WithIds([i \in 1..(p[1] + p[2]) |->
                 Leaver(IF i <= p[1] THEN i ELSE 2 * p[1] - i + 1)]) :
        p \in {q \in (0..Len(TermReasons)) \X (0..MaxExtra) : q[2] <= q[1]}}

\* Every roster file of at most MaxLenShared rows.
SharedFiles == {WithIds(rows) : rows \in SeqsUpTo(Roster, MaxLenShared)}

\* Every roster file of at most MaxLen rows.
SmallFiles == {WithIds(rows) : rows \in SeqsUpTo(Roster, MaxLen)}

\* Longer files: a pair of roster rows repeated up to MaxRepeat times (enough
\* rows to overflow the ten-row table).
LongFiles ==
    {WithIds(Repeat(<<a, b>>, k)) : a \in Roster, b \in Roster, k \in 1..MaxRepeat}

(***************************************************************************)
(* Module load, lines 5-36.                                                *)
(***************************************************************************)
\* df["Department"].replace({...})
ReplaceDepartment(d) ==
    IF d \in {"Admin Offices", "Executive Office", "Executive Offices"}
    THEN "Admin and Executive Offices" ELSE d

\* astype(str).str.strip() on the Sex values of the file
strip(s) == IF s = "M " THEN "M" ELSE IF s = "F " THEN "F" ELSE s

\* pd.to_datetime(..., errors="coerce"): an empty or unparseable cell is NaT
to_datetime(cell) ==
    IF isna(cell) THEN <<>>
    ELSE IF cell[1].m \in 1..12 /\ cell[1].d \in 1..31 THEN cell ELSE <<>>

dt_year(cell) == IF isna(cell) THEN NaN ELSE <<cell[1].y>>

dt_month(cell) == IF isna(cell) THEN NaN ELSE <<cell[1].m>>

CleanRow(r) ==
    LET hire == to_datetime(r.DateofHire)
        term == to_datetime(r.DateofTermination)
    IN  [r EXCEPT !.Department = ReplaceDepartment(r.Department),
                  !.Sex = strip(r.Sex),
                  !.DateofHire = hire,
                  !.DateofTermination = term]
        @@ [TerminationYear |-> dt_year(term),
            TerminationMonth |-> dt_month(term),
            HireYear |-> dt_year(hire)]

read_csv(file) == [i \in DOMAIN file |-> CleanRow(file[i])]

\* sorted(df[col].dropna().unique()) for a column of plain strings
SortedUnique(frame, col) ==
    SortedStrings({frame[i][col] : i \in DOMAIN frame})

\* sorted(df["TerminationYear"].dropna().unique())
SortedYears(frame) ==
    SortedNumbers({frame[i].TerminationYear[1] :
                      i \in {j \in DOMAIN frame : ~isna(frame[j].TerminationYear)}})

Unset == <<>>

\* Before the import runs: no module-level name is bound, no call was made.
NotImported ==
    /\ pc = "import"
    /\ df = Unset
    /\ departments = Unset
    /\ genders = Unset
    /\ years = Unset
    /\ min_year = Unset
    /\ max_year = Unset
    /\ total_employees = Unset
    /\ terminated_employees = Unset
    /\ active_employees = Unset
    /\ overall_attrition_rate = Unset
    /\ inputs = Unset
    /\ locals = Unset
    /\ outputs = [outcome |-> "not called"]
    /\ pc_b = "idle"
    /\ inputs_b = Unset
    /\ locals_b = Unset
    /\ outputs_b = [outcome |-> "not called"]

Init == csv \in SmallFiles /\ NotImported

\* Lines 5-36.  With no rows, line 26 divides 0 by 0: ZeroDivisionError, and
\* the import (so the process) dies with the later globals never assigned.
LoadModule ==
    /\ pc = "import"
    /\ LET frame == read_csv(csv)
           total == Len(frame)
           termd == SumSeq(column(frame, "Termd"))
           yrs == SortedYears(frame)
       IN  /\ df' = frame
           /\ total_employees' = total
           /\ terminated_employees' = termd
           /\ active_employees' = total - termd
           /\ IF total = 0
              THEN /\ pc' = "ZeroDivisionError"
                   /\ UNCHANGED <<overall_attrition_rate, departments, genders,
                                  years, min_year, max_year>>
              ELSE /\ pc' = "serving"
                   /\ overall_attrition_rate' = Round1(termd, total)
                   /\ departments' = SortedUnique(frame, "Department")
                   /\ genders' = SortedUnique(frame, "Sex")
                   /\ years' = yrs
                   /\ min_year' = IF yrs # <<>> THEN yrs[1] ELSE None
                   /\ max_year' = IF yrs # <<>> THEN yrs[Len(yrs)] ELSE None
    /\ UNCHANGED <<csv, inputs, locals, outputs, thread_b>>

(***************************************************************************)
(* update_dashboard, lines 469-753.                                        *)
(***************************************************************************)
\* The values the four filter components can send.  An empty selection
\* stands for both None and []; "Sales" is a department no row has.
DeptSelections == {{}, {"Production", "IT/IS"}, {"Sales"}}

GenderSelections == {{}, {"F"}}

StatusSelections == {{}, {"Terminated for Cause"}}

YearRanges == {None, <<2020, 2020>>, <<2020, 2021>>}

FilterInputs ==
    [selected_depts : DeptSelections, selected_genders : GenderSelections,
     year_range : YearRanges, selected_status : StatusSelections]

\* Lines 472-478: dff, the copy of df narrowed by department and gender.
FilterDeptGender(frame, selected_depts, selected_genders) ==
    LET InDepts(r) == isin(r.Department, selected_depts)
        InGenders(r) == isin(r.Sex, selected_genders)
        by_dept == IF selected_depts # {} THEN SelectSeq(frame, InDepts)
                   ELSE frame
    IN  IF selected_genders # {} THEN SelectSeq(by_dept, InGenders)
        ELSE by_dept

\* Line 481
ActiveRows(dff) ==
    LET IsActive(r) == r.Termd = 0 IN SelectSeq(dff, IsActive)

\* Faulty variant of TerminatedRows: the rows that carry a termination date
\* (dff[dff["DateofTermination"].notna()]).
TerminatedRowsByDate(dff) ==
    LET HasDate(r) == ~isna(r.DateofTermination) IN SelectSeq(dff, HasDate)

\* Line 482
TerminatedRows(dff) ==
    LET IsTermd(r) == r.Termd = 1 IN SelectSeq(dff, IsTermd)

\* Lines 484-487
NarrowByStatus(dff_term, selected_status) ==
    LET InStatus(r) == isin(r.EmploymentStatus, selected_status)
    IN  IF selected_status # {} THEN SelectSeq(dff_term, InStatus)
        ELSE dff_term

\* Lines 489-494: applied only when both the range and the module-level
\* list years are truthy.
NarrowByYear(dff_term, year_range, yrs) ==
    LET InRange(r) == /\ ge(r.TerminationYear, year_range[1])
                      /\ le(r.TerminationYear, year_range[2])
    IN  IF year_range # None /\ yrs # <<>> THEN SelectSeq(dff_term, InRange)
        ELSE dff_term

\* Faulty variant of Slices: the status filter applied to dff itself, before
\* the active / terminated split.
SlicesStatusOnFull(frame, yrs, f) ==
    LET dff == NarrowByStatus(
                   FilterDeptGender(frame, f.selected_depts, f.selected_genders),
                   f.selected_status)
    IN  [dff |-> dff,
         dff_active |-> ActiveRows(dff),
         dff_term |-> NarrowByYear(TerminatedRows(dff), f.year_range, yrs)]

\* Lines 472-494: the three frames every later section reads.
Slices(frame, yrs, f) ==
    LET dff == FilterDeptGender(frame, f.selected_depts, f.selected_genders)
    IN  [dff |-> dff,
         dff_active |-> ActiveRows(dff),
         dff_term |-> NarrowByYear(
                          NarrowByStatus(TerminatedRows(dff), f.selected_status),
                          f.year_range, yrs)]

\* Faulty variant of KPIs: the terminated KPI counted on the narrowed slice.
KPIsCountNarrowed(s) ==
    LET total == Len(s.dff)
        terminated == Len(s.dff_term)
    IN  [total |-> total,
         terminated |-> terminated,
         active |-> Len(s.dff_active),
         attr_rate |-> IF total > 0 THEN Round1(terminated, total) ELSE 0]

\* Faulty variant of KPIs: terminated counted on the narrowed slice and the
\* active KPI derived by subtraction.
KPIsBySubtraction(s) ==
    LET total == Len(s.dff)
        terminated == Len(s.dff_term)
    IN  [total |-> total,
         terminated |-> terminated,
         active |-> total - terminated,
         attr_rate |-> IF total > 0 THEN Round1(terminated, total) ELSE 0]

\* Lines 497-500
KPIs(s) ==
    LET total == Len(s.dff)
        terminated == SumSeq(column(s.dff, "Termd"))
        active == Len(s.dff_active)
    IN  [total |-> total,
         terminated |-> terminated,
         active |-> active,
         attr_rate |-> IF total > 0 THEN Round1(terminated, total) ELSE 0]

\* f"{attr_rate}": a float rounded to one decimal prints with that decimal;
\* the int 0 of the empty population prints as "0".
FormatRate(total, tenths) ==
    IF total > 0
    THEN ToString(tenths \div 10) \o "." \o ToString(tenths % 10)
    ELSE "0"

\* Faulty variant of cumsum: the monthly counts left as they are.
no_cumsum(counts) == counts

cumsum(counts) == [i \in DOMAIN counts |-> SumSeq(SubSeq(counts, 1, i))]

\* frame.groupby(col)["EmpID"].count().reset_index(name=name): one row per
\* distinct value of col, in sorted key order.
GroupCount(frame, col, name) ==
    LET keys == SortedStrings({frame[i][col] : i \in DOMAIN frame})
        Size(key) == Cardinality({i \in DOMAIN frame : frame[i][col] = key})
    IN  [g \in DOMAIN keys |-> (col :> keys[g]) @@ (name :> Size(keys[g]))]

\* Faulty variant of Monthly: the dataset-wide denominator len(dff) in place
\* of the headcount hired by the year.
MonthlyDatasetWide(s, year) ==
    LET headcount == Len(s.dff)
        Terms(m) == Cardinality({i \in DOMAIN s.dff_term :
                                    /\ s.dff_term[i].TerminationYear = <<year>>
                                    /\ s.dff_term[i].TerminationMonth = <<m>>})
        CumulativeTerms == cumsum([m \in 1..12 |-> Terms(m)])
    IN  [m \in 1..12 |->
            [TerminationMonth |-> m,
             Terms |-> Terms(m),
             CumulativeTerms |-> CumulativeTerms[m],
             CumulativeAttritionRate |->
                 IF headcount > 0
                 THEN [num |-> CumulativeTerms[m] * 100, den |-> headcount]
                 ELSE [num |-> 0, den |-> 1],
             Year |-> year]]

\* Lines 513-524: the twelve monthly rows of one termination year.
Monthly(s, year) ==
    LET headcount == Cardinality({i \in DOMAIN s.dff : le(s.dff[i].HireYear, year)})
        Terms(m) == Cardinality({i \in DOMAIN s.dff_term :
                                    /\ s.dff_term[i].TerminationYear = <<year>>
                                    /\ s.dff_term[i].TerminationMonth = <<m>>})
        CumulativeTerms == cumsum([m \in 1..12 |-> Terms(m)])
    IN  [m \in 1..12 |->
            [TerminationMonth |-> m,
             Terms |-> Terms(m),
             CumulativeTerms |-> CumulativeTerms[m],
             CumulativeAttritionRate |->
                 IF headcount > 0
                 THEN [num |-> CumulativeTerms[m] * 100, den |-> headcount]
                 ELSE [num |-> 0, den |-> 1],
             Year |-> year]]

RECURSIVE concat(_)
concat(frames) ==
    IF frames = <<>> THEN <<>> ELSE frames[1] \o concat(Tail(frames))

MonthLabels ==
    << "Jan", "Feb", "Mar", "Apr", "May", "Jun",
       "Jul", "Aug", "Sep", "Oct", "Nov", "Dec" >>

\* Lines 503-549.  pd.concat of an empty list raises ValueError.
fig_year(s) ==
    IF s.dff # <<>> /\ s.dff_term # <<>>
    THEN LET valid_years == SortedYears(s.dff_term)
             chart_data == [y \in DOMAIN valid_years |-> Monthly(s, valid_years[y])]
         IN  IF chart_data = <<>>
             THEN [raised |-> "ValueError"]
             ELSE [raised |-> "", kind |-> "line", data |-> concat(chart_data),
                   ticktext |-> MonthLabels]
    ELSE [raised |-> "", kind |-> "empty",
          title |-> "No data available for current filters"]

\* Faulty variant of merge_left: an inner join, which drops the departments
\* with no terminated row.
merge_inner(dept_totals, dept_terms) ==
    LET Match(d) == {j \in DOMAIN dept_terms : dept_terms[j].Department = d}
        HasMatch(row) == Match(row.Department) # {}
        kept == SelectSeq(dept_totals, HasMatch)
    IN  [i \in DOMAIN kept |->
            kept[i] @@
            [Terminated |->
                <<dept_terms[CHOOSE j \in Match(kept[i].Department) :
                                 TRUE].Terminated>>]]

\* Line 571: dept_totals.merge(dept_terms, on="Department", how="left")
merge_left(dept_totals, dept_terms) ==
    LET Match(d) == {j \in DOMAIN dept_terms : dept_terms[j].Department = d}
    IN  [i \in DOMAIN dept_totals |->
            dept_totals[i] @@
            [Terminated |->
                IF Match(dept_totals[i].Department) = {} THEN NaN
                ELSE <<dept_terms[CHOOSE j \in Match(dept_totals[i].Department) :
                                      TRUE].Terminated>>]]

\* Line 572
fillna0(cell) == IF isna(cell) THEN 0 ELSE cell[1]

\* Lines 557-578: per-department rate, highest first.
dept_attrition(s) ==
    LET dept_totals == GroupCount(s.dff, "Department", "TotalEmployees")
        dept_terms == GroupCount(s.dff_term, "Department", "Terminated")
        merged == merge_left(dept_totals, dept_terms)
        rated == [i \in DOMAIN merged |->
                    [Department |-> merged[i].Department,
                     TotalEmployees |-> merged[i].TotalEmployees,
                     Terminated |-> fillna0(merged[i].Terminated),
                     AttritionRate |-> Round1(fillna0(merged[i].Terminated),
                                              merged[i].TotalEmployees)]]
    IN  take(rated, nargsort([i \in DOMAIN rated |-> <<rated[i].AttritionRate>>],
                             FALSE))

\* Lines 554-592
fig_dept(s) ==
    IF s.dff_term # <<>>
    THEN [kind |-> "bar", data |-> dept_attrition(s)]
    ELSE [kind |-> "empty", title |-> "No termination data for current filters"]

\* Lines 595-609
fig_gender(s) ==
    IF s.dff_term # <<>>
    THEN [kind |-> "pie",
          data |-> GroupCount(s.dff_term, "Sex", "Terminations")]
    ELSE [kind |-> "pie", data |-> <<[Sex |-> "No data", Terminations |-> 1]>>]

\* Lines 614-619
reason_counts(dff_term) ==
    LET counts == GroupCount(dff_term, "TermReason", "Count")
    IN  take(counts, nargsort([i \in DOMAIN counts |-> <<counts[i].Count>>], TRUE))

\* Lines 613-629
fig_reason(s) ==
    IF s.dff_term # <<>>
    THEN [kind |-> "bar", data |-> reason_counts(s.dff_term)]
    ELSE [kind |-> "empty", title |-> "No data"]

\* frame.groupby("Department")["EngagementSurvey"].mean(): missing scores
\* are skipped; a group with no score has a missing mean.
GroupMean(frame, name) ==
    LET keys == SortedStrings({frame[i].Department : i \in DOMAIN frame})
        Scored(r) == ~isna(r.EngagementSurvey)
        Scores(d) == LET InDept(r) == r.Department = d /\ Scored(r)
                         rows == SelectSeq(frame, InDept)
                     IN  [i \in DOMAIN rows |-> rows[i].EngagementSurvey[1]]
    IN  [g \in DOMAIN keys |->
            [Department |-> keys[g]] @@
            (name :> IF Scores(keys[g]) = <<>> THEN NaN
                     ELSE <<[num |-> SumSeq(Scores(keys[g])),
                             den |-> Len(Scores(keys[g]))]>>)]

\* Lines 651-654: outer merge on Department, sorted by Department.
eng_compare(eng_active, eng_term) ==
    LET keys == SortedStrings({eng_active[i].Department : i \in DOMAIN eng_active}
                              \cup {eng_term[i].Department : i \in DOMAIN eng_term})
        Cell(frame, d, name) ==
            LET hit == {i \in DOMAIN frame : frame[i].Department = d}
            IN  IF hit = {} THEN NaN ELSE frame[CHOOSE i \in hit : TRUE][name]
    IN  [g \in DOMAIN keys |->
            [Department |-> keys[g],
             ActiveEngagement |-> Cell(eng_active, keys[g], "ActiveEngagement"),
             TerminatedEngagement |->
                 Cell(eng_term, keys[g], "TerminatedEngagement")]]

\* Lines 656-667: melt to one row per department and employee status.
eng_long(compare) ==
    [i \in DOMAIN compare |->
        [Department |-> compare[i].Department,
         EmployeeStatus |-> "Active Employees",
         AvgEngagement |-> compare[i].ActiveEngagement]]
    \o
    [i \in DOMAIN compare |->
        [Department |-> compare[i].Department,
         EmployeeStatus |-> "Terminated Employees",
         AvgEngagement |-> compare[i].TerminatedEngagement]]

\* Lines 634-695; the EngagementSurvey column is always in the file.
fig_engagement(s) ==
    [kind |-> "bar",
     data |-> eng_long(eng_compare(GroupMean(s.dff_active, "ActiveEngagement"),
                                   GroupMean(s.dff_term, "TerminatedEngagement")))]

\* A non-negative integer with "," between groups of three digits.
RECURSIVE Thousands(_)
Thousands(n) ==
    IF n < 1000 THEN ToString(n)
    ELSE LET low == n % 1000
         IN  Thousands(n \div 1000) \o ","
             \o (IF low < 10 THEN "00" ELSE IF low < 100 THEN "0" ELSE "")
             \o ToString(low)

Pad2(n) == IF n < 10 THEN "0" \o ToString(n) ELSE ToString(n)

\* f"${mean:,.2f}" of the mean sum / n: cents rounded half to even.
FormatMoney(sum, n) ==
    LET q == (sum * 100) \div n
        r == (sum * 100) % n
        cents == IF 2 * r > n THEN q + 1
                 ELSE IF 2 * r = n THEN q + (q % 2)
                 ELSE q
    IN  "$" \o Thousands(cents \div 100) \o "." \o Pad2(cents % 100)

\* Lines 700-708 and the cell of lines 713-720
AverageSalary(frame) ==
    IF frame # <<>>
    THEN FormatMoney(SumSeq(column(frame, "Salary")), Len(frame))
    ELSE "N/A"

\* Lines 710-725
salary_table_data(s) ==
    << [Status |-> "Active", AverageSalary |-> AverageSalary(s.dff_active)],
       [Status |-> "Terminated", AverageSalary |-> AverageSalary(s.dff_term)] >>

\* The sort key of a datetime cell.
DateKey(cell) ==
    IF isna(cell) THEN NaN
    ELSE <<cell[1].y * 10000 + cell[1].m * 100 + cell[1].d>>

\* Faulty variant of sort_values_desc: the default ascending sort.
sort_values_asc(frame) ==
    take(frame, nargsort([i \in DOMAIN frame |-> DateKey(frame[i].DateofTermination)],
                         TRUE))

\* dff_term.sort_values("DateofTermination", ascending=False)
sort_values_desc(frame) ==
    take(frame, nargsort([i \in DOMAIN frame |-> DateKey(frame[i].DateofTermination)],
                         FALSE))

\* .dt.strftime("%Y-%m-%d"); NaT stays missing
strftime(cell) ==
    IF isna(cell) THEN NaN
    ELSE <<ToString(cell[1].y) \o "-" \o Pad2(cell[1].m) \o "-" \o Pad2(cell[1].d)>>

TableRows == 10

\* Lines 729-737
table_data(s) ==
    IF s.dff_term # <<>>
    THEN LET table_df == head(sort_values_desc(s.dff_term), TableRows)
         IN  [i \in DOMAIN table_df |->
                [Employee_Name |-> table_df[i].Employee_Name,
                 Department |-> table_df[i].Department,
                 TermReason |-> table_df[i].TermReason,
                 DateofTermination |-> strftime(table_df[i].DateofTermination),
                 ManagerName |-> table_df[i].ManagerName]]
    ELSE <<>>

\* Everything one call computes: the locals when the function ends and the
\* eleven returned values, or the exception that ended it.
Dashboard(frame, yrs, f) ==
    LET s == Slices(frame, yrs, f)
        k == KPIs(s)
        year == fig_year(s)
    IN  [locals |-> s @@ k,
         outputs |->
            IF year.raised # ""
            THEN [outcome |-> year.raised]
            ELSE [outcome |-> "returned",
                  kpi_total |-> ToString(k.total),
                  kpi_active |-> ToString(k.active),
                  kpi_terminated |-> ToString(k.terminated),
                  kpi_attrition_rate |->
                      "Attrition rate: " \o FormatRate(k.total, k.attr_rate) \o "%",
                  fig_year |-> year,
                  fig_dept |-> fig_dept(s),
                  fig_gender |-> fig_gender(s),
                  fig_reason |-> fig_reason(s),
                  table_data |-> table_data(s),
                  fig_engagement |-> fig_engagement(s),
                  salary_table_data |-> salary_table_data(s)]]

\* Faulty variant of KeepGlobals: the filtered frame assigned to the
\* module-level df (a "global df" in the callback).
AssignGlobalDf ==
    /\ df' = locals'.dff
    /\ UNCHANGED <<departments, genders, years, min_year, max_year,
                   total_employees, terminated_employees, active_employees,
                   overall_attrition_rate>>

\* Faulty variant of KeepGlobals: the undated rows dropped from the
\* module-level df in place (df.dropna(subset=..., inplace=True)).
DropUndatedInPlace ==
    /\ df' = LET Dated(r) == ~isna(r.TerminationYear) IN SelectSeq(df, Dated)
    /\ UNCHANGED <<departments, genders, years, min_year, max_year,
                   total_employees, terminated_employees, active_employees,
                   overall_attrition_rate>>

\* The callback never assigns a module-level name: it works on df.copy().
KeepGlobals == UNCHANGED globals

\* Lines 447-469: Dash calls the callback with the current values of the
\* four filter components.
Invoke(f) ==
    /\ pc = "serving"
    /\ pc' = "in update_dashboard"
    /\ inputs' = f
    /\ locals' = Unset
    /\ outputs' = [outcome |-> "pending"]
    /\ UNCHANGED <<csv, globals, thread_b>>

\* Lines 470-753: the body of the callback, to its return or its exception.
update_dashboard ==
    /\ pc = "in update_dashboard"
    /\ pc' = "serving"
    /\ LET call == Dashboard(df, years, inputs)
       IN  /\ locals' = call.locals
           /\ outputs' = call.outputs
    /\ KeepGlobals
    /\ UNCHANGED <<csv, inputs, thread_b>>

Next ==
    \/ LoadModule
    \/ \E f \in FilterInputs : Invoke(f)
    \/ update_dashboard

Spec == Init /\ [][Next]_vars

\* Lines 447-469 in a second worker thread of the server: a request that
\* arrives while the first thread is inside the callback.
Invoke_b(f) ==
    /\ pc = "in update_dashboard"
    /\ pc_b = "idle"
    /\ pc_b' = "in update_dashboard"
    /\ inputs_b' = f
    /\ locals_b' = Unset
    /\ outputs_b' = [outcome |-> "pending"]
    /\ UNCHANGED <<csv, globals, pc, inputs, locals, outputs>>

\* Lines 470-753 in the second worker thread.
update_dashboard_b ==
    /\ pc_b = "in update_dashboard"
    /\ pc_b' = "idle"
    /\ LET call == Dashboard(df, years, inputs_b)
       IN  /\ locals_b' = call.locals
           /\ outputs_b' = call.outputs
    /\ KeepGlobals
    /\ UNCHANGED <<csv, pc, inputs, locals, outputs, inputs_b>>

\* The filter values of the two concurrent sessions.
ConcurrentInputs ==
    [selected_depts : {{}, {"Production", "IT/IS"}}, selected_genders : {{}},
     year_range : {None, <<2020, 2020>>},
     selected_status : StatusSelections]

NextConcurrent ==
    \/ LoadModule
    \/ \E f \in ConcurrentInputs : Invoke(f)
    \/ update_dashboard
    \/ \E f \in ConcurrentInputs : Invoke_b(f)
    \/ update_dashboard_b

InitConcurrent == csv \in SharedFiles /\ NotImported

SpecConcurrent == InitConcurrent /\ [][NextConcurrent]_vars

InitLong == csv \in LongFiles /\ NotImported

InitReasons == csv \in ReasonFiles /\ NotImported

SpecReasons == InitReasons /\ [][Next]_vars

SpecLong == InitLong /\ [][Next]_vars

(***************************************************************************)
(* Properties.                                                             *)
(***************************************************************************)
\* A call has ended, by a return or by an exception.
Served == pc = "serving" /\ outputs.outcome # "not called"

\* A call has ended by its return statement.
Returned == pc = "serving" /\ outputs.outcome = "returned"

\* The filtered full population of the current inputs, stated from the
\* department and gender selections alone.
FullPopulation ==
    LET Keep(r) ==
            /\ inputs.selected_depts = {} \/ r.Department \in inputs.selected_depts
            /\ inputs.selected_genders = {} \/ r.Sex \in inputs.selected_genders
    IN  SelectSeq(df, Keep)

CountWhere(frame, Test(_)) == Cardinality({i \in DOMAIN frame : Test(frame[i])})

IsTerminated(r) == r.Termd = 1

IsNotTerminated(r) == r.Termd = 0

\* |tenths / 10 - num / den * 100| <= 0.05: tenths is num / den * 100
\* rounded to one decimal.
NearestTenth(tenths, num, den) ==
    LET diff == tenths * den - num * 1000
    IN  2 * (IF diff < 0 THEN -diff ELSE diff) <= den

\* The three-record example dataset: (dept A, not terminated), (dept A,
\* terminated 2020-03, "Voluntarily Terminated"), (dept B, terminated
\* 2020-05, "Terminated for Cause").
ExampleFile ==
    WithIds(<< RawRow("Production", "F", 0, "Active", Date(2019, 1, 7), <<>>,
                      "N/A-StillEmployed", <<45>>, 62500),
               RawRow("Production", "M ", 1, "Voluntarily Terminated",
                      Date(2019, 1, 7), Date(2020, 3, 15), "unhappy", <<30>>, 50000),
               RawRow("IT/IS", "F", 1, "Terminated for Cause", <<>>,
                      Date(2020, 5, 20), "Attendance", <<>>, 70125) >>)

CauseOnly ==
    [selected_depts |-> {}, selected_genders |-> {}, year_range |-> None,
     selected_status |-> {"Terminated for Cause"}]

C3_AttritionRateRounded ==
    Returned =>
        /\ 0 <= locals.attr_rate /\ locals.attr_rate <= 1000
        /\ locals.total > 0 =>
               NearestTenth(locals.attr_rate, locals.terminated, locals.total)
        /\ locals.total = 0 =>
               /\ locals.attr_rate = 0
               /\ outputs.kpi_attrition_rate = "Attrition rate: 0%"

\* C3 witness: a rate that needs rounding (2 of 3 is 66.7).
C3_Witness ==
    /\ Returned
    /\ locals.total = 3
    /\ locals.terminated = 2
    /\ locals.attr_rate = 667

\* C4: for fixed department / gender filters the full population, the
\* active slice, total and every per-department and per-year denominator are
\* what the department / gender selection alone determines (no status
\* filter or year range changes them); those two filters only remove rows
\* from the terminated slice.
C4_StatusYearOnlyNarrowTerminated ==
    Served =>
        /\ locals.dff = FullPopulation
        /\ locals.dff_active = SelectSeq(FullPopulation, IsNotTerminated)
        /\ locals.total = Len(FullPopulation)
        /\ locals.active = CountWhere(FullPopulation, IsNotTerminated)
        /\ Range(locals.dff_term) \subseteq
               {r \in Range(FullPopulation) : IsTerminated(r)}
        /\ (Returned /\ outputs.fig_dept.kind = "bar") =>
               \A row \in Range(outputs.fig_dept.data) :
                   LET InDept(r) == r.Department = row.Department
                   IN  row.TotalEmployees = CountWhere(FullPopulation, InDept)
        /\ (Returned /\ outputs.fig_year.kind = "line") =>
               \A row \in Range(outputs.fig_year.data) :
                   LET Hired(r) == le(r.HireYear, row.Year)
                       headcount == CountWhere(FullPopulation, Hired)
                   IN  IF headcount > 0
                       THEN row.CumulativeAttritionRate.den = headcount
                       ELSE row.CumulativeAttritionRate.num = 0

\* C4 witness: a returned call in which both the status filter and the year
\* range are set and removed terminated rows, with a non-empty active slice.
C4_Witness ==
    /\ Returned
    /\ inputs.selected_status # {}
    /\ inputs.year_range # None
    /\ locals.dff_active # <<>>
    /\ locals.dff_term # <<>>
    /\ Len(locals.dff_term) < CountWhere(locals.dff, IsTerminated)

\* C5 as stated: every call that ends, ends with a complete returned result;
\* no dataset and no filter selection makes update_dashboard raise.
C5_NoFatalErrorPath == Served => outputs.outcome = "returned"

\* C6 as stated: with an empty dataset the program comes up and serves
\* total 0, active 0, terminated 0, rate 0, and every chart and table is an
\* explicit "no data" / "not available" result.
C6_EmptyDatasetReportsNoData ==
    (csv = <<>> /\ pc # "import") =>
        /\ pc \in {"serving", "in update_dashboard"}
        /\ Returned =>
              /\ outputs.kpi_total = "0"
              /\ outputs.kpi_active = "0"
              /\ outputs.kpi_terminated = "0"
              /\ outputs.kpi_attrition_rate = "Attrition rate: 0%"
              /\ outputs.fig_year.kind = "empty"
              /\ outputs.fig_dept.kind = "empty"
              /\ outputs.fig_gender.data[1].Sex = "No data"
              /\ outputs.fig_reason.kind = "empty"
              /\ outputs.fig_engagement.kind = "empty"
              /\ \A row \in Range(outputs.salary_table_data) :
                     row.AverageSalary = "N/A"
              /\ outputs.table_data = <<>>

\* C7: within every year of the timeline the cumulative termination rate is
\* non-decreasing from month 1 to month 12, and every termination year of
\* the terminated slice has its series.
C7_TimelineMonotone ==
    (Returned /\ outputs.fig_year.kind = "line") =>
        /\ \A a \in Range(outputs.fig_year.data) :
               \A b \in Range(outputs.fig_year.data) :
                   (a.Year = b.Year /\ a.TerminationMonth <= b.TerminationMonth) =>
                       a.CumulativeAttritionRate.num * b.CumulativeAttritionRate.den
                           <= b.CumulativeAttritionRate.num
                                  * a.CumulativeAttritionRate.den
        /\ \A r \in Range(locals.dff_term) :
               ~isna(r.TerminationYear) =>
                   \E a \in Range(outputs.fig_year.data) :
                       a.Year = r.TerminationYear[1]

\* C7 witness: a series that rises strictly after a month with terminations
\* and rises again later in the same year.
C7_Witness ==
    /\ Returned
    /\ outputs.fig_year.kind = "line"
    /\ \E a \in Range(outputs.fig_year.data) :
           \E b \in Range(outputs.fig_year.data) :
               /\ a.Year = b.Year
               /\ a.TerminationMonth < b.TerminationMonth
               /\ a.Terms > 0 /\ b.Terms > 0
               /\ 0 < a.CumulativeAttritionRate.num
               /\ a.CumulativeAttritionRate.num < b.CumulativeAttritionRate.num

DeptsOf(frame) == {frame[i].Department : i \in DOMAIN frame}

\* C8 as stated: for every filter selection with a non-empty full population
\* the department breakdown lists exactly the departments of full, those
\* without a terminated record at rate 0, also when the terminated slice is
\* empty.
C8_DeptBreakdownAlwaysListsFull ==
    (Returned /\ locals.dff # <<>>) =>
        /\ outputs.fig_dept.kind = "bar"
        /\ DeptsOf(outputs.fig_dept.data) = DeptsOf(locals.dff)
        /\ \A row \in Range(outputs.fig_dept.data) :
               row.Department \notin DeptsOf(locals.dff_term) =>
                   row.AttritionRate = 0

\* C8 as amended: whenever the terminated slice is non-empty the department
\* breakdown lists exactly the departments of the filtered full population,
\* each once, those without a record in the terminated slice at rate 0;
\* when the terminated slice is empty the breakdown is the "No termination
\* data" placeholder, whatever full holds.
C8_DeptBreakdownListsFull ==
    Returned =>
        IF locals.dff_term # <<>>
        THEN /\ outputs.fig_dept.kind = "bar"
             /\ DeptsOf(outputs.fig_dept.data) = DeptsOf(locals.dff)
             /\ Len(outputs.fig_dept.data) = Cardinality(DeptsOf(locals.dff))
             /\ \A row \in Range(outputs.fig_dept.data) :
                    row.Department \notin DeptsOf(locals.dff_term) =>
                        row.Terminated = 0 /\ row.AttritionRate = 0
        ELSE /\ outputs.fig_dept.kind = "empty"
             /\ outputs.fig_dept.title = "No termination data for current filters"

\* C8 witness: a breakdown holding a department of full that has no record
\* in the terminated slice, next to one that has.
C8_Witness ==
    /\ Returned
    /\ outputs.fig_dept.kind = "bar"
    /\ \E row \in Range(outputs.fig_dept.data) :
           row.Department \notin DeptsOf(locals.dff_term) /\ row.AttritionRate = 0
    /\ \E row \in Range(outputs.fig_dept.data) : row.AttritionRate > 0

\* How recent a termination date is; an absent date is older than any date.
Recency(cell) == IF isna(cell) THEN 0 ELSE DateKey(cell)[1]

\* The row of the terminated slice a table row shows.
SliceRow(name) ==
    CHOOSE r \in Range(locals.dff_term) : r.Employee_Name = name

\* C9: the recent-terminations table has at most 10 rows, each the
\* projection of a distinct record of the terminated slice, in descending
\* termination-date order with absent dates after all dated records, and no
\* record left out is more recent than a record shown.
C9_RecentTerminationsTable ==
    Returned =>
        LET table == outputs.table_data
            shown == {table[i].Employee_Name : i \in DOMAIN table}
        IN  /\ Len(table) <= 10
            /\ Len(table) = IF Len(locals.dff_term) < 10
                            THEN Len(locals.dff_term) ELSE 10
            /\ Cardinality(shown) = Len(table)
            /\ \A i \in DOMAIN table :
                   /\ \E r \in Range(locals.dff_term) :
                          r.Employee_Name = table[i].Employee_Name
                   /\ table[i].Department = SliceRow(table[i].Employee_Name).Department
                   /\ isna(table[i].DateofTermination) =
                          isna(SliceRow(table[i].Employee_Name).DateofTermination)
            /\ \A i \in DOMAIN table : \A j \in DOMAIN table :
                   i < j =>
                       Recency(SliceRow(table[i].Employee_Name).DateofTermination)
                           >= Recency(SliceRow(table[j].Employee_Name).DateofTermination)
            /\ \A r \in Range(locals.dff_term) :
                   r.Employee_Name \notin shown =>
                       \A i \in DOMAIN table :
                           Recency(r.DateofTermination) <=
                               Recency(SliceRow(table[i].Employee_Name).DateofTermination)

\* C9 witness: a terminated slice of more than 10 records, dated and
\* undated, cut to a table of 10 rows that ends with undated records while a
\* further undated record is left out.
C9_Witness ==
    /\ Returned
    /\ Len(locals.dff_term) > 10
    /\ Len(outputs.table_data) = 10
    /\ ~isna(outputs.table_data[1].DateofTermination)
    /\ isna(outputs.table_data[10].DateofTermination)
    /\ \E i \in 1..9 :
           Recency(SliceRow(outputs.table_data[i].Employee_Name).DateofTermination)
               > Recency(SliceRow(outputs.table_data[i + 1].Employee_Name).DateofTermination)

\* C10: whatever calls were served before, the result of a call is the
\* result a freshly imported process gives for the same file and the same
\* filter inputs: nothing of an earlier call is carried into it.
C10_ResultDependsOnFileAndInputsOnly ==
    Served =>
        LET fresh == read_csv(csv)
            call == Dashboard(fresh, SortedYears(fresh), inputs)
        IN  outputs = call.outputs /\ locals = call.locals

\* C10 witness: a returned call whose filters cut rows from both the full
\* population and the terminated slice.
C10_Witness ==
    /\ Returned
    /\ 0 < Len(locals.dff) /\ Len(locals.dff) < Len(df)
    /\ 0 < Len(locals.dff_term)
    /\ Len(locals.dff_term) < CountWhere(locals.dff, IsTerminated)

\* A call of the second worker thread has ended, by a return or an exception.
Served_b == pc_b = "idle" /\ outputs_b.outcome # "not called"

\* C11: no call changes the module-level dataset or the filter domains
\* derived from it, however the calls of two threads interleave, and each
\* call's result is the one the same inputs give when run alone on a freshly
\* imported process.
C11_SharedDatasetReadOnly ==
    pc \in {"serving", "in update_dashboard"} =>
        LET fresh == read_csv(csv)
            fresh_years == SortedYears(fresh)
        IN  /\ df = fresh
            /\ departments = SortedUnique(fresh, "Department")
            /\ genders = SortedUnique(fresh, "Sex")
            /\ years = fresh_years
            /\ min_year = (IF fresh_years # <<>> THEN fresh_years[1] ELSE None)
            /\ max_year = (IF fresh_years # <<>>
                           THEN fresh_years[Len(fresh_years)] ELSE None)
            /\ Served =>
                   outputs = Dashboard(fresh, fresh_years, inputs).outputs
            /\ Served_b =>
                   outputs_b = Dashboard(fresh, fresh_years, inputs_b).outputs

\* C11 witness: two overlapping calls (the second arrived while the first
\* thread was inside the callback) with different filters have both
\* returned, each having cut rows from the terminated slice or the
\* population.
C11_Witness ==
    /\ Returned
    /\ Served_b /\ outputs_b.outcome = "returned"
    /\ inputs # inputs_b
    /\ Len(locals.dff_term) # Len(locals_b.dff_term)
    /\ Len(locals.dff) < Len(df)

\* The points of the returned timeline for one year and one month.
TimelinePoints(year, m) ==
    {i \in DOMAIN outputs.fig_year.data :
        /\ outputs.fig_year.data[i].Year = year
        /\ outputs.fig_year.data[i].TerminationMonth = m}

\* The terminated-slice rows of one year up to one month.
TerminatedUpTo(year, m) ==
    {i \in DOMAIN locals.dff_term :
        /\ locals.dff_term[i].TerminationYear = <<year>>
        /\ ~isna(locals.dff_term[i].TerminationMonth)
        /\ locals.dff_term[i].TerminationMonth[1] <= m}

\* The rows of the department/gender population hired by the year.
HiredBy(year) ==
    {i \in DOMAIN FullPopulation :
        /\ ~isna(FullPopulation[i].HireYear)
        /\ FullPopulation[i].HireYear[1] <= year}

\* C12: for every termination year present in the terminated slice the
\* timeline has exactly one point for each month 1..12; its value is the
\* number of terminated-slice rows of that year up to that month, over the
\* number of rows of the department/gender population hired by that year,
\* times 100, and 0 for every month when nobody was hired by that year; a
\* month without terminations adds a count of 0.
C12_TimelineDenseCumulativeRate ==
    Served =>
        \A r \in Range(locals.dff_term) :
            ~isna(r.TerminationYear) =>
                /\ outputs.outcome = "returned"
                /\ outputs.fig_year.kind = "line"
                /\ \A m \in 1..12 :
                       LET year == r.TerminationYear[1]
                           points == TimelinePoints(year, m)
                           terms == Cardinality(TerminatedUpTo(year, m))
                           headcount == Cardinality(HiredBy(year))
                       IN  /\ Cardinality(points) = 1
                           /\ \A i \in points :
                                  LET point == outputs.fig_year.data[i]
                                      rate == point.CumulativeAttritionRate
                                  IN  /\ point.Terms =
                                             Cardinality(TerminatedUpTo(year, m)
                                                 \ TerminatedUpTo(year, m - 1))
                                      /\ IF headcount = 0
                                         THEN rate.num = 0
                                         ELSE rate.num * headcount
                                                  = terms * 100 * rate.den

\* C12 witness: a timeline of two years, one with nobody hired by that year
\* (all twelve rates 0 though it has a termination) and one with a positive
\* rate that stays level over months without terminations, while the
\* population holds a row hired after the first year.
C12_Witness ==
    /\ Returned
    /\ outputs.fig_year.kind = "line"
    /\ \E r \in Range(locals.dff_term) :
           /\ ~isna(r.TerminationYear)
           /\ HiredBy(r.TerminationYear[1]) = {}
           /\ TerminatedUpTo(r.TerminationYear[1], 12) # {}
    /\ \E r \in Range(locals.dff_term) :
           /\ ~isna(r.TerminationYear)
           /\ HiredBy(r.TerminationYear[1]) # {}
           /\ Cardinality(HiredBy(r.TerminationYear[1])) < Len(locals.dff)
           /\ \E m \in 2..12 :
                  /\ TerminatedUpTo(r.TerminationYear[1], m - 1) # {}
                  /\ TerminatedUpTo(r.TerminationYear[1], m)
                         = TerminatedUpTo(r.TerminationYear[1], m - 1)

\* The number of terminated-slice rows with a reason.
ReasonCount(reason) ==
    Cardinality({i \in DOMAIN locals.dff_term :
                    locals.dff_term[i].TermReason = reason})

\* The position of the first terminated-slice row with a reason.
FirstSeen(reason) ==
    CHOOSE i \in DOMAIN locals.dff_term :
        /\ locals.dff_term[i].TermReason = reason
        /\ \A j \in 1..(i - 1) : locals.dff_term[j].TermReason # reason

\* The ten reasons with the highest counts, equal counts in encounter order.
TopTenReasons ==
    LET reasons == {locals.dff_term[i].TermReason : i \in DOMAIN locals.dff_term}
        Beats(a, b) ==
            \/ ReasonCount(a) > ReasonCount(b)
            \/ ReasonCount(a) = ReasonCount(b) /\ FirstSeen(a) < FirstSeen(b)
    IN  {a \in reasons : Cardinality({b \in reasons : Beats(b, a)}) < 10}

\* C13: the reason breakdown has one bar for each of at most ten reasons of
\* the terminated slice, those with the highest counts (equal counts in
\* encounter order), each with its count, in ascending order of count.
C13_ReasonBreakdownTopTen ==
    (Returned /\ outputs.fig_reason.kind = "bar") =>
        LET data == outputs.fig_reason.data
        IN  /\ Len(data) <= 10
            /\ {data[i].TermReason : i \in DOMAIN data} = TopTenReasons
            /\ Len(data) = Cardinality(TopTenReasons)
            /\ \A i \in DOMAIN data :
                   data[i].Count = ReasonCount(data[i].TermReason)
            /\ \A i \in DOMAIN data : \A j \in DOMAIN data :
                   i <= j => data[i].Count <= data[j].Count

\* The dataset with every trace of a termination taken off the rows whose
\* Termd is 0: no termination date, year or month, and status "Active".
WithoutStrayTerminations ==
    [i \in DOMAIN df |->
        IF df[i].Termd = 0
        THEN [df[i] EXCEPT !.DateofTermination = NaN,
                           !.TerminationYear = NaN,
                           !.TerminationMonth = NaN,
                           !.EmploymentStatus = "Active"]
        ELSE df[i]]

\* C14: a row with Termd = 0 is never in the terminated slice, never in the
\* recent-terminations table, and every returned value (timeline,
\* department, gender and reason breakdowns, engagement means, salary means,
\* table) is what it would be had that row no termination date and an
\* active status; so also when its termination year lies in the selected
\* range and its status is one of the selected statuses.
C14_NotTerminatedNeverCounted ==
    Served =>
        LET clean == Dashboard(WithoutStrayTerminations, years, inputs)
        IN  /\ \A r \in Range(locals.dff_term) : r.Termd = 1
            /\ locals.dff_term = clean.locals.dff_term
            /\ outputs = clean.outputs
            /\ Returned =>
                   \A row \in Range(outputs.table_data) :
                       \E r \in Range(df) :
                           r.Termd = 1 /\ r.Employee_Name = row.Employee_Name

\* C14 witness: a returned call with a status filter and a year range, a
\* non-empty terminated slice, and in the population a row with Termd = 0
\* whose status is selected and whose termination year lies in the range.
C14_Witness ==
    /\ Returned
    /\ inputs.selected_status # {}
    /\ inputs.year_range # None
    /\ locals.dff_term # <<>>
    /\ \E r \in Range(locals.dff) :
           /\ r.Termd = 0
           /\ r.EmploymentStatus \in inputs.selected_status
           /\ ge(r.TerminationYear, inputs.year_range[1])
           /\ le(r.TerminationYear, inputs.year_range[2])
           /\ \E t \in Range(locals.dff_term) :
                  /\ t.TerminationYear = r.TerminationYear
                  /\ t.EmploymentStatus = r.EmploymentStatus

\* The rows of the population with Termd = 1, a selected status and no
\* termination year.
UndatedLeavers ==
    {r \in Range(FullPopulation) :
        /\ r.Termd = 1
        /\ inputs.selected_status = {}
               \/ r.EmploymentStatus \in inputs.selected_status
        /\ isna(r.TerminationYear)}

\* The row is in none of the rows of the recent-terminations table.
NotInTable(r) ==
    Returned =>
        \A row \in Range(outputs.table_data) :
            row.Employee_Name # r.Employee_Name

\* C15 as stated: whenever a year range is supplied, a row with Termd = 1
\* and no termination year is removed from the terminated slice and from
\* the table; only when the year range is absent does it remain in the
\* slice.
C15_AnyYearRangeDropsUndated ==
    Served =>
        \A r \in UndatedLeavers :
            IF inputs.year_range # None
            THEN r \notin Range(locals.dff_term) /\ NotInTable(r)
            ELSE r \in Range(locals.dff_term)

\* The year filter of lines 489-494 in full: when a year range is supplied
\* and the dataset has at least one termination year, a row with Termd = 1
\* and no termination year is removed from the terminated slice and from the
\* table; it remains in the slice when the year range is absent or when no
\* row of the dataset has a termination year.
YearRangeDropsUndated ==
    Served =>
        \A r \in UndatedLeavers :
            IF inputs.year_range # None /\ years # <<>>
            THEN r \notin Range(locals.dff_term) /\ NotInTable(r)
            ELSE r \in Range(locals.dff_term)

\* The slider's case of the year filter: a returned call with the default range
\* [min_year, max_year] over two different years, which removed a row with
\* Termd = 1 and no termination year and left dated rows in the slice.
DefaultRangeDroppedUndated ==
    /\ Returned
    /\ years # <<>>
    /\ min_year # max_year
    /\ inputs.year_range = <<min_year, max_year>>
    /\ UndatedLeavers # {}
    /\ locals.dff_term # <<>>
    /\ \A r \in UndatedLeavers : r \notin Range(locals.dff_term)
    /\ outputs.table_data # <<>>

====
